---- MODULE Spec2Model ----
(***************************************************************************)
(* A model of the D&D Combat Companion page script (src/app.py) and of the *)
(* stand-alone fetch helper (src/dnd_fetcher.py).                          *)
(*                                                                         *)
(* ParseSpec applies the pure classifier parse_dnd_beyond_json to every    *)
(* document of a bounded set.  Spec is one browser session: every action   *)
(* is one user interaction followed by the complete rerun of the script.   *)
(*                                                                         *)
(* JSON values are tagged records, so that a missing key, a null and a     *)
(* value of the wrong type stay distinguishable, as they are for Python's  *)
(* dict.get.  The emoji that prefix the display lines are written as       *)
(* ASCII names in braces.                                                  *)
(***************************************************************************)
EXTENDS Integers, Sequences, FiniteSets, TLC

VARIABLES
    data,            \* parse_dnd_beyond_json: the argument (full_data)
    pc,              \* parse_dnd_beyond_json: "call" before, "done" after, "idle" when not called
    combat_options,  \* parse_dnd_beyond_json: the outcome (return or raise); `actions` in the script
    \* what a session keeps between two runs of the script
    secrets_key,     \* st.secrets["GOOGLE_API_KEY"], Missing when not configured
    key_input,       \* value of the "Google Gemini API Key" text input
    uploaded_file,   \* content of the file uploader, Null when empty
    max_hp_widget,   \* state of the "Max HP" number input
    situation,       \* value of the "Situation Report" text area
    session_state,   \* st.session_state
    genai_key,       \* the key last passed to genai.configure
    \* what the latest run of the script did
    event,           \* the interaction that triggered the run
    http,            \* the HTTP exchange of the run's fetch, NoHttp when none
    api_key,         \* api_key
    result,          \* result of fetch_character_json, Null when not called
    fetched_data,    \* character_data after the Live Fetch tab
    character_data,  \* character_data after the Upload File tab
    sheet_name,      \* name, Null when the dashboard was not reached
    heading,         \* the dashboard heading, "" when not rendered
    hp,              \* current_hp, max_hp, hp_percent and the HUD status
    gen_button,      \* the Generate Strategy button was rendered
    gen_clicked,     \* st.button("Generate Strategy") returned True
    errors,          \* the st.error messages, in order
    successes,       \* the st.success messages, in order
    model_call,      \* the call to the generative model, NoCall when none
    shown_strat,     \* the strategy text displayed, Null when none
    exception        \* the uncaught exception that stopped the run, "" when none

----------------------------------------------------------------------------
(* JSON values as Python sees them after json.load / response.json()       *)

Null == [t |-> "null"]
JInt(n) == [t |-> "int", v |-> n]
JStr(s) == [t |-> "str", v |-> s]
JBool(b) == [t |-> "bool", v |-> b]
JList(s) == [t |-> "list", v |-> s]
JObj(f) == [t |-> "obj", v |-> f]

\* the literal {} used as a default in dict.get(key, {})
EmptyObj == JObj(<<>>)

\* the literal [] used as a default in dict.get(key, [])
EmptyList == JList(<<>>)

IsObj(x) == x.t = "obj"

IsList(x) == x.t = "list"

\* Python's dict.get(key, default) on a value known to be a dict
Get(obj, key, default) == IF key \in DOMAIN obj.v THEN obj.v[key] ELSE default

\* Python's `key in obj` on a value known to be a dict
HasKey(obj, key) == key \in DOMAIN obj.v

\* Python truthiness (bool(x))
Truthy(x) ==
    CASE x.t = "null" -> FALSE
      [] x.t = "int"  -> x.v # 0
      [] x.t = "str"  -> x.v # ""
      [] x.t = "bool" -> x.v
      [] x.t = "list" -> Len(x.v) > 0
      [] x.t = "obj"  -> DOMAIN x.v # {}

\* Python's x == n for an int literal n (True == 1 and False == 0 in Python)
EqInt(x, n) ==
    CASE x.t = "int"  -> x.v = n
      [] x.t = "bool" -> (IF x.v THEN 1 ELSE 0) = n
      [] OTHER        -> FALSE

\* Python's x == s for a str literal s
EqStr(x, s) == x.t = "str" /\ x.v = s

\* the text an f-string substitutes for {x}
Fmt(x) ==
    CASE x.t = "null" -> "None"
      [] x.t = "int"  -> ToString(x.v)
      [] x.t = "str"  -> x.v
      [] x.t = "bool" -> (IF x.v THEN "True" ELSE "False")

----------------------------------------------------------------------------
(* parse_dnd_beyond_json                                                   *)

Categories == {"Action", "Bonus Action", "Reaction", "Other"}

\* a faulty variant: the mapping built without its Other key
InitialOptionsNoOther == [c \in Categories \ {"Other"} |-> <<>>]

\* combat_options = {"Action": [], "Bonus Action": [], "Reaction": [], "Other": []}
InitialOptions == [c \in Categories |-> <<>>]

\* an operation's outcome: exc = "" is normal completion with the value co
Ok(co) == [exc |-> "", co |-> co]

\* an uncaught exception; the local combat_options is lost
Raise(exc) == [exc |-> exc, co |-> <<>>]

\* sequencing: the statements F run on r's value unless r raised
Then(r, F(_)) == IF r.exc # "" THEN r ELSE F(r.co)

\* a faulty variant: the Bonus Action code taken to be 2
get_activation_category_Off(activation_type) ==
    IF EqInt(activation_type, 1) THEN "Action"
    ELSE IF EqInt(activation_type, 2) THEN "Bonus Action"
    ELSE IF EqInt(activation_type, 4) THEN "Reaction"
    ELSE "Other"

get_activation_category(activation_type) ==
    IF EqInt(activation_type, 1) THEN "Action"
    ELSE IF EqInt(activation_type, 3) THEN "Bonus Action"
    ELSE IF EqInt(activation_type, 4) THEN "Reaction"
    ELSE "Other"

\* combat_options[category].append(line)
AppendTo(co, category, line) == [co EXCEPT ![category] = Append(@, line)]

RaceLabel == "{bust} Race"

ClassLabel == "{shield} Class"

FeatLabel == "{medal} Feat"

\* f"{source_label}: {name}{uses_text}"
AbilityLine(source_label, name, uses_text) ==
    source_label \o ": " \o Fmt(name) \o uses_text

\* f" (Max: {limited_use.get('maxUses')})" if limited_use.get('maxUses') else ""
UsesText(limited_use) ==
    LET maxUses == Get(limited_use, "maxUses", Null)
    IN  IF Truthy(maxUses) THEN " (Max: " \o Fmt(maxUses) \o ")" ELSE ""

\* the body of the loop over one source list, for one ability
ParseAbility(co, ability, source_label) ==
    IF ~IsObj(ability) THEN Raise("AttributeError")
    ELSE
    LET name == Get(ability, "name", JStr("Unknown Ability"))
        got == Get(ability, "activation", EmptyObj)
        activation == IF Truthy(got) THEN got ELSE EmptyObj
    IN  IF ~IsObj(activation) THEN Raise("AttributeError")
        ELSE
        LET act_type == Get(activation, "activationType", Null)
        IN  IF ~Truthy(act_type) THEN Ok(co)
            ELSE
            LET category == get_activation_category(act_type)
                limited_use == Get(ability, "limitedUse", EmptyObj)
            IN  IF ~IsObj(limited_use) THEN Raise("AttributeError")
                ELSE IF category # "Other"
                     THEN Ok(AppendTo(co, category,
                               AbilityLine(source_label, name, UsesText(limited_use))))
                     ELSE Ok(co)

RECURSIVE ParseAbilitiesFrom(_, _, _, _)
\* for ability in source_list, from position i on
ParseAbilitiesFrom(co, abilities, source_label, i) ==
    IF i > Len(abilities) THEN Ok(co)
    ELSE Then(ParseAbility(co, abilities[i], source_label),
              LAMBDA co1 : ParseAbilitiesFrom(co1, abilities, source_label, i + 1))

\* for ability in source_list (iterating None raises TypeError)
ParseSource(co, source_list, source_label) ==
    IF ~IsList(source_list) THEN Raise("TypeError")
    ELSE ParseAbilitiesFrom(co, source_list.v, source_label, 1)

\* sources = [(actions_data.get('race', []), ...), ...] and the loop over it
ParseSources(co, actions_data) ==
    Then(ParseSource(co, Get(actions_data, "race", EmptyList), RaceLabel),
         LAMBDA co1 :
    Then(ParseSource(co1, Get(actions_data, "class", EmptyList), ClassLabel),
         LAMBDA co2 :
         ParseSource(co2, Get(actions_data, "feat", EmptyList), FeatLabel)))

\* 1. PARSE CLASS, RACE, & FEAT ACTIONS
ParseActions(co, character) ==
    IF ~IsObj(Get(character, "actions", EmptyObj)) THEN Raise("AttributeError")
    ELSE ParseSources(co, Get(character, "actions", EmptyObj))

\* f"{swords} Attack: {name}"
AttackLine(name) == "{swords} Attack: " \o Fmt(name)

\* f"{swords} Off-hand Attack: {name}"
OffhandLine(name) == "{swords} Off-hand Attack: " \o Fmt(name)

\* a faulty variant: only the first property is looked at
AnyLightFirstOnly(properties, i) ==
    IF i > Len(properties) THEN "no"
    ELSE IF ~IsObj(properties[i]) THEN "AttributeError"
    ELSE IF EqStr(Get(properties[i], "name", Null), "Light") THEN "yes"
    ELSE "no"

RECURSIVE AnyLightFrom(_, _)
\* any(p.get('name') == 'Light' for p in properties): "yes", "no", or the
\* exception raised by p.get before a Light property was found
AnyLightFrom(properties, i) ==
    IF i > Len(properties) THEN "no"
    ELSE IF ~IsObj(properties[i]) THEN "AttributeError"
    ELSE IF EqStr(Get(properties[i], "name", Null), "Light") THEN "yes"
    ELSE AnyLightFrom(properties, i + 1)

\* the body of the inventory loop, for one item
ParseItem(co, item) ==
    IF ~IsObj(item) THEN Raise("AttributeError")
    ELSE IF ~Truthy(Get(item, "equipped", Null)) THEN Ok(co)
    ELSE
    LET definition == Get(item, "definition", EmptyObj)
    IN  IF ~IsObj(definition) THEN Raise("AttributeError")
        ELSE
        LET name == Get(definition, "name", JStr("Unknown Item"))
        IN  IF ~EqStr(Get(definition, "filterType", Null), "Weapon") THEN Ok(co)
            ELSE
            LET co1 == AppendTo(co, "Action", AttackLine(name))
                properties == Get(definition, "properties", EmptyList)
            IN  IF ~IsList(properties) THEN Raise("TypeError")
                ELSE
                LET light == AnyLightFrom(properties.v, 1)
                IN  IF light = "yes"
                    THEN Ok(AppendTo(co1, "Bonus Action", OffhandLine(name)))
                    ELSE IF light = "no" THEN Ok(co1)
                    ELSE Raise(light)

RECURSIVE ParseItemsFrom(_, _, _)
\* for item in inventory, from position i on
ParseItemsFrom(co, items, i) ==
    IF i > Len(items) THEN Ok(co)
    ELSE Then(ParseItem(co, items[i]), LAMBDA co1 : ParseItemsFrom(co1, items, i + 1))

\* 2. PARSE INVENTORY (Weapons)
ParseInventory(co, character) ==
    IF ~IsList(Get(character, "inventory", EmptyList)) THEN Raise("TypeError")
    ELSE ParseItemsFrom(co, Get(character, "inventory", EmptyList).v, 1)

\* "Cantrip" if level == 0 else f"Lvl {level}"
LvlStr(level) == IF EqInt(level, 0) THEN "Cantrip" ELSE "Lvl " \o Fmt(level)

\* f"{sparkles} {name} ({lvl_str})"
SpellLine(name, level) ==
    "{sparkles} " \o Fmt(name) \o " (" \o LvlStr(level) \o ")"

\* the body of the inner spell loop, for one spell entry
ParseSpell(co, spell_entry) ==
    IF ~IsObj(spell_entry) THEN Raise("AttributeError")
    ELSE
    LET spell_def == Get(spell_entry, "definition", EmptyObj)
    IN  IF ~IsObj(spell_def) THEN Raise("AttributeError")
        ELSE
        LET name == Get(spell_def, "name", JStr("Unknown"))
            activation == Get(spell_def, "activation", EmptyObj)
        IN  IF ~IsObj(activation) THEN Raise("AttributeError")
            ELSE
            LET act_type == Get(activation, "activationType", Null)
                category == get_activation_category(act_type)
            IN  IF category # "Other"
                THEN Ok(AppendTo(co, category,
                          SpellLine(name, Get(spell_def, "level", Null))))
                ELSE Ok(co)

RECURSIVE ParseSpellsFrom(_, _, _)
\* for spell_entry in char_class.get('spells', []), from position i on
ParseSpellsFrom(co, spells, i) ==
    IF i > Len(spells) THEN Ok(co)
    ELSE Then(ParseSpell(co, spells[i]), LAMBDA co1 : ParseSpellsFrom(co1, spells, i + 1))

\* the body of the outer spell loop, for one class
ParseClassSpells(co, char_class) ==
    IF ~IsObj(char_class) THEN Raise("AttributeError")
    ELSE IF ~IsList(Get(char_class, "spells", EmptyList)) THEN Raise("TypeError")
    ELSE ParseSpellsFrom(co, Get(char_class, "spells", EmptyList).v, 1)

RECURSIVE ParseClassesFrom(_, _, _)
\* for char_class in character.get('classSpells', []), from position i on
ParseClassesFrom(co, classes, i) ==
    IF i > Len(classes) THEN Ok(co)
    ELSE Then(ParseClassSpells(co, classes[i]),
              LAMBDA co1 : ParseClassesFrom(co1, classes, i + 1))

\* 3. PARSE SPELLS
ParseSpells(co, character) ==
    IF ~IsList(Get(character, "classSpells", EmptyList)) THEN Raise("TypeError")
    ELSE ParseClassesFrom(co, Get(character, "classSpells", EmptyList).v, 1)

GenericActions ==
    << "{runner} Dash", "{shield} Dodge", "{wind} Disengage",
       "{handshake} Help", "{monkey} Hide", "{magnifier} Search" >>

GenericReactions == << "{zap} Opportunity Attack" >>

\* a faulty variant: the generic entries put in front of the lists
AddGenericFirst(co) ==
    [co EXCEPT !["Action"] = GenericActions \o @,
               !["Reaction"] = GenericReactions \o @]

\* 4. GENERIC ACTIONS
AddGeneric(co) ==
    [co EXCEPT !["Action"] = @ \o GenericActions,
               !["Reaction"] = @ \o GenericReactions]

\* the four parts of the function in order, on the character
ParseCharacter(character) ==
    Then(ParseActions(InitialOptions, character), LAMBDA co1 :
    Then(ParseInventory(co1, character), LAMBDA co2 :
    Then(ParseSpells(co2, character), LAMBDA co3 : Ok(AddGeneric(co3)))))

\* the whole function: Ok(mapping) when it returns, Raise(..) when it raises
parse_dnd_beyond_json(d) ==
    IF ~IsObj(Get(d, "character", EmptyObj)) THEN Raise("AttributeError")
    ELSE ParseCharacter(Get(d, "character", EmptyObj))

----------------------------------------------------------------------------
(* The documents handed to parse_dnd_beyond_json.  Every optional field of *)
(* the data model occurs missing, null and present.                        *)

MaxActType == 5

MaxUses == 1

MaxLevel == 2

MaxProps == 2

MaxAbilities == 2

MaxItems == 2

MaxSpells == 1

\* marks a key that the document does not have
Missing == [t |-> "missing"]

\* the JSON object with the fields of f that are not Missing
MkObj(f) == JObj([k \in {j \in DOMAIN f : f[j].t # "missing"} |-> f[k]])

SeqsUpTo(S, n) == UNION {[1..k -> S] : k \in 0..n}

ListsUpTo(S, n) == {JList(s) : s \in SeqsUpTo(S, n)}

ActTypeOpts == {Missing, Null} \cup {JInt(n) : n \in 0..MaxActType}

ActivationOpts ==
    {Missing, Null} \cup {MkObj([activationType |-> a]) : a \in ActTypeOpts}

LimitedUseOpts ==
    {Missing, Null}
    \cup {MkObj([maxUses |-> m]) : m \in {Missing, Null} \cup {JInt(n) : n \in 0..MaxUses}}

AbilityAll ==
    {MkObj([name |-> n, activation |-> a, limitedUse |-> l]) :
        n \in {Missing, Null, JStr("Breath Weapon")},
        a \in ActivationOpts, l \in LimitedUseOpts}

Property(n) == MkObj([name |-> JStr(n)])

PropertiesOpts ==
    {Missing, Null} \cup ListsUpTo({Property("Light"), Property("Heavy")}, MaxProps)

ItemDefinitionOpts ==
    {Missing, Null}
    \cup {MkObj([name |-> n, filterType |-> f, properties |-> p]) :
            n \in {Missing, JStr("Dagger")},
            f \in {Missing, JStr("Weapon"), JStr("Armor")},
            p \in PropertiesOpts}

ItemAll ==
    {MkObj([equipped |-> e, definition |-> d]) :
        e \in {Missing, Null, JBool(FALSE), JBool(TRUE)}, d \in ItemDefinitionOpts}

SpellDefinitionOpts ==
    {Missing, Null}
    \cup {MkObj([name |-> n, activation |-> a, level |-> l]) :
            n \in {Missing, JStr("Shield")},
            a \in ActivationOpts,
            l \in {Missing, Null} \cup {JInt(k) : k \in 0..MaxLevel}}

SpellAll == {MkObj([definition |-> d]) : d \in SpellDefinitionOpts}

Character(actions, inventory, classSpells) ==
    MkObj([character |->
        MkObj([name |-> JStr("Aria"), actions |-> actions,
               inventory |-> inventory, classSpells |-> classSpells])])

ClassWith(spells) == MkObj([spells |-> spells])

\* one ability, of any shape, in one of the three sources
AbilityDocs ==
    {Character(MkObj([s \in {"race", "class", "feat"} |->
                        IF s = src THEN JList(<<a>>) ELSE Missing]),
               Missing, Missing) :
        src \in {"race", "class", "feat"}, a \in AbilityAll}

\* one inventory entry, of any shape
ItemDocs == {Character(Missing, JList(<<i>>), Missing) : i \in ItemAll}

\* one spell entry, of any shape
SpellDocs ==
    {Character(Missing, Missing, JList(<<ClassWith(JList(<<sp>>))>>)) : sp \in SpellAll}

EmptyOpts == {Missing, Null, EmptyList}

\* the containers themselves missing, null or empty
StructDocs ==
    {MkObj([character |-> c]) : c \in {Missing, Null}}
    \cup {Character(a, i, cs) :
            a \in {Missing, Null}
                  \cup {MkObj([race |-> r, class |-> c, feat |-> f]) :
                          r \in EmptyOpts, c \in EmptyOpts, f \in EmptyOpts},
            i \in EmptyOpts,
            cs \in EmptyOpts \cup {JList(<<ClassWith(s)>>) : s \in EmptyOpts}}

Ability(name, actType, uses) ==
    MkObj([name |-> JStr(name),
           activation |-> MkObj([activationType |-> JInt(actType)]),
           limitedUse |-> IF uses = 0 THEN Missing ELSE MkObj([maxUses |-> JInt(uses)])])

Item(name, equipped, filterType, props) ==
    MkObj([equipped |-> JBool(equipped),
           definition |-> MkObj([name |-> JStr(name), filterType |-> JStr(filterType),
                                 properties |-> JList(props)])])

Spell(name, actType, level) ==
    MkObj([definition |->
        MkObj([name |-> JStr(name), level |-> JInt(level),
               activation |-> MkObj([activationType |-> JInt(actType)])])])

MixAbilities ==
    {Ability("Breath Weapon", 1, 1), Ability("Second Wind", 3, 0), Ability("Darkvision", 2, 0)}

MixItems ==
    {Item("Dagger", TRUE, "Weapon", <<Property("Finesse"), Property("Light")>>),
     Item("Longsword", TRUE, "Weapon", <<Property("Versatile")>>),
     Item("Dagger", FALSE, "Weapon", <<Property("Light")>>)}

MixSpells ==
    {Spell("Shield", 4, 1), Spell("Fire Bolt", 1, 0)}

\* several well-formed entries of every kind together
MixedDocs ==
    {Character(MkObj([race |-> r, class |-> Missing, feat |-> f]), i,
               JList(<<ClassWith(sp)>>)) :
        r \in ListsUpTo(MixAbilities, MaxAbilities),
        f \in {EmptyList, JList(<<Ability("Sentinel", 4, 0)>>)},
        i \in ListsUpTo(MixItems, MaxItems),
        sp \in ListsUpTo(MixSpells, MaxSpells)}

Docs == AbilityDocs \cup ItemDocs \cup SpellDocs \cup StructDocs \cup MixedDocs

----------------------------------------------------------------------------
(* The character service and fetch_character_json                          *)

\* one HTTP exchange: neterr is the message of the exception requests.get
\* raised ("" when a response arrived), status and body are the response's
Exchange(neterr, status, body) == [neterr |-> neterr, status |-> status, body |-> body]

NoHttp == Exchange("", 0, Null)

\* the reason phrase the server sends with a status
Reason(status) ==
    CASE status = 404 -> "Not Found"
      [] status = 500 -> "Internal Server Error"
      [] OTHER        -> ""

\* str(e) of the HTTPError raised by response.raise_for_status()
HttpErrorText(status) ==
    ToString(status)
    \o (IF status < 500 THEN " Client Error: " ELSE " Server Error: ")
    \o Reason(status)
    \o " for url: https://character-service.dndbeyond.com/character/v5/character/151075644"

\* response.raise_for_status() raises for 4xx and 5xx
RaisesForStatus(status) == status >= 400 /\ status < 600

\* a faulty variant: response.raise_for_status() left out
fetch_character_json_NoStatus(x) ==
    IF x.neterr # "" THEN JObj([error |-> JStr(x.neterr)]) ELSE x.body

\* app.py: try: get, raise_for_status, json; except Exception: {"error": str(e)}
fetch_character_json(x) ==
    IF x.neterr # "" THEN JObj([error |-> JStr(x.neterr)])
    ELSE IF RaisesForStatus(x.status) THEN JObj([error |-> JStr(HttpErrorText(x.status))])
    ELSE x.body

\* dnd_fetcher.py: the same, catching requests.exceptions.RequestException,
\* of which ConnectionError and HTTPError are subclasses
fetcher_fetch_character_json(x) ==
    IF x.neterr # "" THEN JObj([error |-> JStr(x.neterr)])
    ELSE IF RaisesForStatus(x.status) THEN JObj([error |-> JStr(HttpErrorText(x.status))])
    ELSE x.body

----------------------------------------------------------------------------
(* The page script, top to bottom                                          *)

\* the heuristic defaults of the HP tracker
DefaultBaseHitPoints == 100

DefaultLevel == 1

\* exact fractions stand for the floats of the HP computation
Frac(n, d) == [n |-> n, d |-> d]

\* a / b for ints, b # 0
TrueDiv(a, b) == IF b > 0 THEN Frac(a, b) ELSE Frac(-a, -b)

FracLess(x, y) == x.n * y.d < y.n * x.d

\* Python's min(x, y): the first argument unless the second is smaller
PyMin(x, y) == IF FracLess(y, x) THEN y ELSE x

\* Python's max(x, y): the first argument unless the second is larger
PyMax(x, y) == IF FracLess(x, y) THEN y ELSE x

\* max(0.0, min(1.0, current_hp / max_hp))
HpPercent(current_hp, max_hp) ==
    PyMax(Frac(0, 1), PyMin(Frac(1, 1), TrueDiv(current_hp, max_hp)))

NoHp == [current_hp |-> 0, max_hp |-> 0, hp_percent |-> Frac(0, 0), status |-> ""]

\* the metric of the HUD's second column
HudStatus(temp_hp, hp_percent) ==
    IF temp_hp > 0 THEN "Temp HP"
    ELSE IF FracLess(Frac(1, 2), hp_percent) THEN "Healthy" ELSE "Bloodied"

NoWidget == [shown |-> FALSE, default |-> 0, value |-> 0]

\* st.number_input("Max HP", value=default_hp, step=1): the widget keeps the
\* user's value from run to run while it is rendered with the same default
MaxHpValue(widget, default_hp) ==
    IF widget.shown /\ widget.default = default_hp THEN widget.value ELSE default_hp

RECURSIVE JoinQuoted(_, _)
\* the elements of a list of strings as json.dumps writes them, from i on
JoinQuoted(lines, i) ==
    IF i > Len(lines) THEN ""
    ELSE "\"" \o lines[i] \o "\""
         \o (IF i < Len(lines) THEN ", " ELSE "")
         \o JoinQuoted(lines, i + 1)

\* json.dumps(actions): the keys in insertion order
JsonDumps(actions) ==
    "{\"Action\": [" \o JoinQuoted(actions["Action"], 1)
    \o "], \"Bonus Action\": [" \o JoinQuoted(actions["Bonus Action"], 1)
    \o "], \"Reaction\": [" \o JoinQuoted(actions["Reaction"], 1)
    \o "], \"Other\": [" \o JoinQuoted(actions["Other"], 1) \o "]}"

\* the f-string of the prompt (leading indentation left out)
BuildPrompt(nm, current_hp, max_hp, actions, sit) ==
    "You are a D&D 5e Combat Optimizer.\n"
    \o "CHARACTER: " \o Fmt(nm) \o " (HP: " \o ToString(current_hp) \o "/"
    \o ToString(max_hp) \o ")\n"
    \o "AVAILABLE MOVES: " \o JsonDumps(actions) \o "\n"
    \o "SCENARIO: " \o sit \o "\n"
    \o "Provide a concise, optimal turn breakdown:\n"
    \o "1. **Movement**: Where to go.\n"
    \o "2. **Action**: The best main action.\n"
    \o "3. **Bonus Action**: How to utilize the bonus economy.\n"
    \o "4. **Reaction**: What to look out for.\n"

\* the generative model's answer to one call: the text, or the exception
Answer(ok, text) == [ok |-> ok, text |-> text]

NoCall == [prompt |-> "", ok |-> FALSE, text |-> ""]

\* if "GOOGLE_API_KEY" in st.secrets: ... else: st.text_input(...)
ApiKey(secrets, typed) == IF secrets.t # "missing" THEN secrets ELSE JStr(typed)

\* a faulty variant: only a key that is None counts as absent
KeyAbsentNoneOnly(key) == key.t = "null"

\* `not api_key` of the Generate Strategy handler
KeyAbsent(key) == ~Truthy(key)

KeyPrompt == "Please enter API Key in sidebar (or secrets)."

\* the Live Fetch tab
LiveFetch(ev, x) ==
    LET none == [result |-> Null, data |-> Null, errors |-> <<>>,
                 successes |-> <<>>, exc |-> ""]
    IN  IF ev # "load" THEN none
        ELSE
        LET res == fetch_character_json(x)
        IN  IF HasKey(res, "error")
            THEN [none EXCEPT !.result = res,
                      !.errors = <<"Failed to fetch: " \o Fmt(res.v["error"])>>]
            ELSE IF HasKey(res, "data")
            THEN IF ~IsObj(res.v["data"])
                 THEN [none EXCEPT !.result = res, !.data = res.v["data"],
                           !.exc = "AttributeError"]
                 ELSE [none EXCEPT !.result = res, !.data = res.v["data"],
                           !.successes = <<"Loaded "
                               \o Fmt(Get(res.v["data"], "name", JStr("Character")))
                               \o "!">>]
            ELSE [none EXCEPT !.result = res, !.data = res,
                      !.successes = <<"Loaded successfully!">>]

\* the Upload File tab: raw.get('data', raw) when a file is present
UploadTab(file, fetched) == IF file.t # "null" THEN Get(file, "data", file) ELSE fetched

\* what a run leaves when the dashboard block is not entered
NoDashboard ==
    [name |-> Null, heading |-> "", hp |-> NoHp, widget |-> NoWidget,
     data |-> Null, pc |-> "idle", actions |-> Raise(""),
     gen_button |-> FALSE, gen_clicked |-> FALSE, situation |-> "",
     errors |-> <<>>, model_call |-> NoCall, session_state |-> session_state,
     shown_strat |-> Null, exception |-> ""]

IsInt(x) == x.t = "int"

\* the Tactical Advisor block, reached with everything above it rendered
Advisor(d, ev, key, sit, answer) ==
    LET clicked == ev = "generate"
        calls == clicked /\ ~KeyAbsent(key)
        prompt == BuildPrompt(d.name, d.hp.current_hp, d.hp.max_hp, d.actions.co, sit)
        stored == IF calls /\ answer.ok
                  THEN JObj([k \in DOMAIN session_state.v \cup {"last_strat"} |->
                               IF k = "last_strat" THEN JStr(answer.text)
                               ELSE session_state.v[k]])
                  ELSE session_state
    IN  [d EXCEPT
            !.gen_button = TRUE,
            !.gen_clicked = clicked,
            !.situation = sit,
            !.errors = IF clicked /\ KeyAbsent(key) THEN <<KeyPrompt>>
                       ELSE IF calls /\ ~answer.ok THEN <<"AI Error: " \o answer.text>>
                       ELSE <<>>,
            !.model_call = IF calls
                           THEN [prompt |-> prompt, ok |-> answer.ok, text |-> answer.text]
                           ELSE NoCall,
            !.session_state = stored,
            !.shown_strat = IF HasKey(stored, "last_strat")
                            THEN stored.v["last_strat"] ELSE Null]

\* the block under `if character_data:`
Dashboard(cd, ev, key, widget, sit, answer) ==
    LET full_data == IF HasKey(cd, "character") THEN cd ELSE JObj([character |-> cd])
        char_sheet == full_data.v["character"]
    IN  IF ~IsObj(char_sheet) THEN [NoDashboard EXCEPT !.exception = "TypeError"]
        ELSE IF ~HasKey(char_sheet, "name") THEN [NoDashboard EXCEPT !.exception = "KeyError"]
        ELSE
        LET nm == char_sheet.v["name"]
            base == Get(char_sheet, "baseHitPoints", JInt(DefaultBaseHitPoints))
            level == Get(char_sheet, "level", JInt(DefaultLevel))
            d1 == [NoDashboard EXCEPT !.name = nm]
        IN  IF ~IsInt(base) \/ ~IsInt(level) THEN [d1 EXCEPT !.exception = "TypeError"]
            ELSE
            LET default_hp == base.v + (level.v * 2)
                max_hp == MaxHpValue(widget, default_hp)
                removed_hp == Get(char_sheet, "removedHitPoints", JInt(0))
                temp_hp == Get(char_sheet, "temporaryHitPoints", JInt(0))
                d2 == [d1 EXCEPT !.widget = [shown |-> TRUE, default |-> default_hp,
                                              value |-> max_hp]]
            IN  IF ~IsInt(removed_hp) THEN [d2 EXCEPT !.exception = "TypeError"]
                ELSE IF max_hp = 0 THEN [d2 EXCEPT !.exception = "ZeroDivisionError"]
                ELSE
                LET current_hp == max_hp - removed_hp.v
                    hp_percent == HpPercent(current_hp, max_hp)
                    d3 == [d2 EXCEPT
                             !.hp = [current_hp |-> current_hp, max_hp |-> max_hp,
                                     hp_percent |-> hp_percent,
                                     status |-> IF IsInt(temp_hp)
                                                THEN HudStatus(temp_hp.v, hp_percent)
                                                ELSE ""],
                             !.heading = Fmt(nm) \o "'s Combat Dashboard"]
                IN  IF ~IsInt(temp_hp) THEN [d3 EXCEPT !.exception = "TypeError"]
                    ELSE
                    LET acts == parse_dnd_beyond_json(full_data)
                        d4 == [d3 EXCEPT
                                 !.data = full_data, !.pc = "done", !.actions = acts]
                    IN  IF acts.exc # "" THEN [d4 EXCEPT !.exception = acts.exc]
                        ELSE Advisor(d4, ev, key, sit, answer)

\* one complete run of the script: ev is the interaction that triggered it,
\* typed/file/widget/sit the widget values it reads, x and answer what the
\* character service and the generative model reply if they are called
Run(ev, typed, file, widget, sit, x, answer) ==
    \E key \in {ApiKey(secrets_key, typed)}, tab1 \in {LiveFetch(ev, x)} :
    \E cd \in {UploadTab(file, tab1.data)} :
    \E d \in {IF tab1.exc # "" THEN [NoDashboard EXCEPT !.exception = tab1.exc]
              ELSE IF Truthy(cd) THEN Dashboard(cd, ev, key, widget, sit, answer)
              ELSE NoDashboard} :
        /\ event' = ev
        /\ key_input' = typed
        /\ uploaded_file' = file
        /\ api_key' = key
        /\ genai_key' = IF Truthy(key) THEN key ELSE genai_key
        /\ http' = IF ev = "load" THEN x ELSE NoHttp
        /\ result' = tab1.result
        /\ fetched_data' = tab1.data
        /\ character_data' = IF tab1.exc # "" THEN tab1.data ELSE cd
        /\ sheet_name' = d.name
        /\ heading' = d.heading
        /\ hp' = d.hp
        /\ max_hp_widget' = d.widget
        /\ data' = d.data
        /\ pc' = d.pc
        /\ combat_options' = d.actions
        /\ gen_button' = d.gen_button
        /\ gen_clicked' = d.gen_clicked
        /\ situation' = d.situation
        /\ errors' = tab1.errors \o d.errors
        /\ successes' = (IF secrets_key.t # "missing" THEN <<"API Key Loaded">> ELSE <<>>)
                        \o tab1.successes
        /\ model_call' = d.model_call
        /\ session_state' = d.session_state
        /\ shown_strat' = d.shown_strat
        /\ exception' = d.exception
        /\ UNCHANGED secrets_key

----------------------------------------------------------------------------
(* The session: what the user and the two services can do                  *)

MaxHpInput == 2

\* the values the user types into the Max HP input
HpInputs == (0 - MaxHpInput)..MaxHpInput

Sheet(nm, removed, temp, race) ==
    MkObj([name |-> nm, baseHitPoints |-> JInt(10), level |-> JInt(1),
           removedHitPoints |-> removed, temporaryHitPoints |-> temp,
           actions |-> MkObj([race |-> JList(race)]),
           inventory |-> JList(<<Item("Dagger", TRUE, "Weapon", <<Property("Light")>>)>>),
           classSpells |-> JList(<<ClassWith(JList(<<Spell("Shield", 4, 1)>>))>>)])

Aria == Sheet(JStr("Aria"), JInt(4), Missing, <<Ability("Breath Weapon", 1, 1)>>)

Borin == Sheet(JStr("Borin"), JInt(15), JInt(3), <<Ability("Second Wind", 3, 0)>>)

Cyra == MkObj([name |-> JStr("Cyra"), removedHitPoints |-> JInt(0 - 2)])

Nameless == Sheet(Missing, JInt(0), Missing, <<>>)

\* an ability as the character service sends it: "limitedUse": null
Dax ==
    Sheet(JStr("Dax"), JInt(0), Missing,
          <<MkObj([name |-> JStr("Rage"), limitedUse |-> Null,
                   activation |-> MkObj([activationType |-> JInt(3)])])>>)

\* the files a user uploads
Files ==
    {MkObj([data |-> Aria]), MkObj([character |-> Borin]), Cyra, Nameless, Dax, EmptyObj}

\* the replies of the character service
Exchanges ==
    {Exchange("Connection refused", 0, Null),
     Exchange("", 404, MkObj([message |-> JStr("Not Found")])),
     Exchange("", 500, MkObj([message |-> JStr("Server Error")])),
     Exchange("", 200, MkObj([data |-> Aria])),
     Exchange("", 200, Cyra)}

\* the replies of the generative model
Answers ==
    {Answer(TRUE, "Attack with the dagger."), Answer(TRUE, "Dodge and fall back."),
     Answer(FALSE, "429 quota exceeded")}

TypedKeys == {"", "sk-typed"}

SecretKeys == {Missing, JStr(""), JStr("sk-secret")}

Situations == {"", "Boss has high AC"}

sessionVars ==
    <<secrets_key, key_input, uploaded_file, max_hp_widget, situation, session_state,
      genai_key, event, http, api_key, result, fetched_data, character_data,
      sheet_name, heading, hp, gen_button, gen_clicked, errors, successes,
      model_call, shown_strat, exception>>

vars == <<data, pc, combat_options, sessionVars>>

\* the page after the first run of the script, before any interaction
FirstRun ==
    /\ key_input = ""
    /\ uploaded_file = Null
    /\ max_hp_widget = NoWidget
    /\ situation = ""
    /\ session_state = EmptyObj
    /\ event = "start"
    /\ http = NoHttp
    /\ api_key = ApiKey(secrets_key, "")
    /\ genai_key = IF Truthy(api_key) THEN api_key ELSE Null
    /\ result = Null
    /\ fetched_data = Null
    /\ character_data = Null
    /\ sheet_name = Null
    /\ heading = ""
    /\ hp = NoHp
    /\ gen_button = FALSE
    /\ gen_clicked = FALSE
    /\ errors = <<>>
    /\ successes = IF secrets_key.t # "missing" THEN <<"API Key Loaded">> ELSE <<>>
    /\ model_call = NoCall
    /\ shown_strat = Null
    /\ exception = ""

Init ==
    /\ secrets_key \in SecretKeys
    /\ FirstRun
    /\ data = Null
    /\ pc = "idle"
    /\ combat_options = Raise("")

\* the user clicks Load Character
LoadCharacter ==
    \E x \in Exchanges :
        Run("load", key_input, uploaded_file, max_hp_widget, situation, x, Answer(FALSE, ""))

\* the user puts a file into the uploader
UploadFile ==
    \E f \in Files :
        /\ f # uploaded_file
        /\ Run("upload", key_input, f, max_hp_widget, situation, NoHttp, Answer(FALSE, ""))

\* the user takes the file out of the uploader
RemoveFile ==
    /\ uploaded_file # Null
    /\ Run("remove", key_input, Null, max_hp_widget, situation, NoHttp, Answer(FALSE, ""))

\* the user types into the API key input, which exists without a secret
EnterApiKey ==
    /\ secrets_key.t = "missing"
    /\ \E k \in TypedKeys :
        /\ k # key_input
        /\ Run("key", k, uploaded_file, max_hp_widget, situation, NoHttp, Answer(FALSE, ""))

\* the user changes the Max HP input
SetMaxHp ==
    /\ max_hp_widget.shown
    /\ \E v \in HpInputs :
        /\ v # max_hp_widget.value
        /\ Run("maxhp", key_input, uploaded_file, [max_hp_widget EXCEPT !.value = v],
               situation, NoHttp, Answer(FALSE, ""))

\* the user edits the Situation Report
EditSituation ==
    /\ gen_button
    /\ \E s \in Situations :
        /\ s # situation
        /\ Run("situation", key_input, uploaded_file, max_hp_widget, s, NoHttp,
               Answer(FALSE, ""))

\* the user clicks Generate Strategy
GenerateStrategy ==
    /\ gen_button
    /\ \E a \in Answers :
        Run("generate", key_input, uploaded_file, max_hp_widget, situation, NoHttp, a)

Next ==
    \/ LoadCharacter
    \/ UploadFile
    \/ RemoveFile
    \/ EnterApiKey
    \/ SetMaxHp
    \/ EditSituation
    \/ GenerateStrategy

Spec == Init /\ [][Next]_vars

----------------------------------------------------------------------------
(* ParseSpec: the classifier applied to each document of Docs              *)

ParseInit ==
    /\ data \in Docs
    /\ pc = "call"
    /\ combat_options = Raise("")
    /\ secrets_key = Missing
    /\ FirstRun

\* actions = parse_dnd_beyond_json(full_data)
Parse ==
    /\ pc = "call"
    /\ combat_options' = parse_dnd_beyond_json(data)
    /\ pc' = "done"
    /\ UNCHANGED <<data, sessionVars>>

ParseNext == Parse

ParseSpec == ParseInit /\ [][ParseNext]_vars

\* the call returned a mapping
Returned == pc = "done" /\ combat_options.exc = ""

----------------------------------------------------------------------------
(* The classifier's claims, read off the document independently of the     *)
(* classifier: what the data model says the entries of a document are      *)

RECURSIVE NoNull(_)
\* no null anywhere in the JSON value x (fields may still be missing)
NoNull(x) ==
    CASE x.t = "null" -> FALSE
      [] x.t = "obj"  -> \A k \in DOMAIN x.v : NoNull(x.v[k])
      [] x.t = "list" -> \A i \in 1..Len(x.v) : NoNull(x.v[i])
      [] OTHER        -> TRUE

\* x when it is an object, the empty object when it is missing or null
AsObj(x) == IF IsObj(x) THEN x ELSE EmptyObj

\* x's elements when it is a list, none when it is missing or null
AsSeq(x) == IF IsList(x) THEN x.v ELSE <<>>

\* field k of x, Null when x is no object or has no k
Field(x, k) == Get(AsObj(x), k, Null)

\* the activation type of an entry's activation object, 0 when absent
TypeOf(activation) ==
    IF Field(activation, "activationType").t = "int"
    THEN Field(activation, "activationType").v ELSE 0

\* the list an activation type names, "none" when it names no list
ListOf(type) ==
    CASE type = 1 -> "Action"
      [] type = 3 -> "Bonus Action"
      [] type = 4 -> "Reaction"
      [] OTHER    -> "none"

TheCharacter == Field(data, "character")

\* the abilities of one source as (display line, activation type)
AbilityEntries(source, label) ==
    LET abilities == AsSeq(Field(Field(TheCharacter, "actions"), source))
    IN  [i \in 1..Len(abilities) |->
            [line |-> AbilityLine(label,
                                  Get(AsObj(abilities[i]), "name", JStr("Unknown Ability")),
                                  UsesText(AsObj(Field(abilities[i], "limitedUse")))),
             type |-> TypeOf(Field(abilities[i], "activation"))]]

\* the spells of one class as (display line, activation type)
SpellEntriesOf(char_class) ==
    LET spells == AsSeq(Field(char_class, "spells"))
    IN  [i \in 1..Len(spells) |->
            [line |-> SpellLine(Get(AsObj(Field(spells[i], "definition")), "name",
                                    JStr("Unknown")),
                                Field(Field(spells[i], "definition"), "level")),
             type |-> TypeOf(Field(Field(spells[i], "definition"), "activation"))]]

RECURSIVE SpellEntriesFrom(_, _)
SpellEntriesFrom(classes, i) ==
    IF i > Len(classes) THEN <<>>
    ELSE SpellEntriesOf(classes[i]) \o SpellEntriesFrom(classes, i + 1)

\* every ability and spell entry of the document, in processing order
Entries ==
    AbilityEntries("race", RaceLabel) \o AbilityEntries("class", ClassLabel)
    \o AbilityEntries("feat", FeatLabel)
    \o SpellEntriesFrom(AsSeq(Field(TheCharacter, "classSpells")), 1)

EntryLines == {Entries[i].line : i \in 1..Len(Entries)}

RECURSIVE LinesFor(_, _, _)
\* the lines of the entries, from i on, whose activation type names list c
LinesFor(entries, c, i) ==
    IF i > Len(entries) THEN <<>>
    ELSE (IF ListOf(entries[i].type) = c THEN <<entries[i].line>> ELSE <<>>)
         \o LinesFor(entries, c, i + 1)

RECURSIVE Only(_, _, _)
\* the elements of lines, from i on, that are in the set S
Only(lines, S, i) ==
    IF i > Len(lines) THEN <<>>
    ELSE (IF lines[i] \in S THEN <<lines[i]>> ELSE <<>>) \o Only(lines, S, i + 1)

\* a document without nulls never makes the classifier raise
ReturnsOnNullFree == (pc = "done" /\ NoNull(data)) => combat_options.exc = ""

\* C1: every ability and spell entry is in exactly the list its activation
\* type names (1 Action, 3 Bonus Action, 4 Reaction) and in no list for any
\* other or absent type: in each returned list the ability and spell lines
\* are exactly the lines of the entries of that type, in processing order
C1_ActivationMapping ==
    /\ ReturnsOnNullFree
    /\ Returned =>
        \A c \in Categories :
            Only(combat_options.co[c], EntryLines, 1) = LinesFor(Entries, c, 1)

C1_Witness ==
    /\ Returned
    /\ \E j, k, l \in 1..Len(Entries) :
        /\ Entries[j].type = 3 /\ Entries[k].type = 4 /\ Entries[l].type = 2
        /\ \A c \in Categories : Only(combat_options.co[c], {Entries[l].line}, 1) = <<>>
    /\ Only(combat_options.co["Bonus Action"], EntryLines, 1) = <<"{bust} Race: Second Wind">>
    /\ Only(combat_options.co["Reaction"], EntryLines, 1) = <<"{sparkles} Shield (Lvl 1)">>

\* the inventory entries that are equipped weapons, as their definitions
Inventory == AsSeq(Field(TheCharacter, "inventory"))

IsEquippedWeapon(item) ==
    /\ Truthy(Field(item, "equipped"))
    /\ EqStr(Field(Field(item, "definition"), "filterType"), "Weapon")

HasLight(item) ==
    \E i \in 1..Len(AsSeq(Field(Field(item, "definition"), "properties"))) :
        EqStr(Field(AsSeq(Field(Field(item, "definition"), "properties"))[i], "name"),
              "Light")

ItemName(item) == Get(AsObj(Field(item, "definition")), "name", JStr("Unknown Item"))

WeaponLines ==
    {AttackLine(ItemName(Inventory[i])) : i \in 1..Len(Inventory)}
    \cup {OffhandLine(ItemName(Inventory[i])) : i \in 1..Len(Inventory)}

RECURSIVE AttacksFrom(_)
\* one Attack line per equipped weapon, from entry i on
AttacksFrom(i) ==
    IF i > Len(Inventory) THEN <<>>
    ELSE (IF IsEquippedWeapon(Inventory[i])
          THEN <<AttackLine(ItemName(Inventory[i]))>> ELSE <<>>) \o AttacksFrom(i + 1)

RECURSIVE OffhandsFrom(_)
\* one Off-hand Attack line per equipped Light weapon, from entry i on
OffhandsFrom(i) ==
    IF i > Len(Inventory) THEN <<>>
    ELSE (IF IsEquippedWeapon(Inventory[i]) /\ HasLight(Inventory[i])
          THEN <<OffhandLine(ItemName(Inventory[i]))>> ELSE <<>>) \o OffhandsFrom(i + 1)

\* C2: every equipped weapon adds one Attack line to Action, and one
\* Off-hand Attack line to Bonus Action iff it has a Light property; an
\* entry that is not equipped or not a weapon adds nothing to any list
C2_Weapons ==
    /\ ReturnsOnNullFree
    /\ Returned =>
        /\ Only(combat_options.co["Action"], WeaponLines, 1) = AttacksFrom(1)
        /\ Only(combat_options.co["Bonus Action"], WeaponLines, 1) = OffhandsFrom(1)
        /\ Only(combat_options.co["Reaction"], WeaponLines, 1) = <<>>
        /\ Only(combat_options.co["Other"], WeaponLines, 1) = <<>>

C2_Witness ==
    /\ Returned
    /\ \E i, j \in 1..Len(Inventory) :
        /\ IsEquippedWeapon(Inventory[i]) /\ HasLight(Inventory[i])
        /\ IsEquippedWeapon(Inventory[j]) /\ ~HasLight(Inventory[j])
    /\ Only(combat_options.co["Action"], WeaponLines, 1)
         = <<"{swords} Attack: Dagger", "{swords} Attack: Longsword">>
    /\ Only(combat_options.co["Bonus Action"], WeaponLines, 1)
         = <<"{swords} Off-hand Attack: Dagger">>

\* C3: the classifier never raises on a document whose optional fields are
\* missing or null
C3_NeverFails == pc = "done" => combat_options.exc = ""

\* the last n elements of a sequence
Tail_n(seq, n) == SubSeq(seq, Len(seq) - n + 1, Len(seq))

\* C9: the returned Action list ends with Dash, Dodge, Disengage, Help, Hide,
\* Search in that order and the Reaction list ends with Opportunity Attack,
\* after every ability, weapon and spell line, whatever the document
C9_GenericEntries ==
    /\ ReturnsOnNullFree
    /\ Returned =>
        /\ Len(combat_options.co["Action"]) >= 6
        /\ Tail_n(combat_options.co["Action"], 6)
             = << "{runner} Dash", "{shield} Dodge", "{wind} Disengage",
                  "{handshake} Help", "{monkey} Hide", "{magnifier} Search" >>
        /\ Len(combat_options.co["Reaction"]) >= 1
        /\ Tail_n(combat_options.co["Reaction"], 1) = << "{zap} Opportunity Attack" >>
        /\ \A c \in {"Action", "Reaction"} :
            \A i \in 1..Len(combat_options.co[c]) :
                combat_options.co[c][i] \in EntryLines \cup WeaponLines
                    => i <= Len(combat_options.co[c]) - (IF c = "Action" THEN 6 ELSE 1)

C9_Witness ==
    /\ Returned
    /\ combat_options.co["Action"]
         = << "{bust} Race: Breath Weapon (Max: 1)", "{swords} Attack: Dagger",
              "{sparkles} Fire Bolt (Cantrip)",
              "{runner} Dash", "{shield} Dodge", "{wind} Disengage",
              "{handshake} Help", "{monkey} Hide", "{magnifier} Search" >>
    /\ combat_options.co["Reaction"]
         = << "{medal} Feat: Sentinel", "{zap} Opportunity Attack" >>

\* C10: the returned mapping has exactly the keys Action, Bonus Action,
\* Reaction and Other, each present even when its list is empty
C10_FourKeys ==
    /\ ReturnsOnNullFree
    /\ Returned =>
        DOMAIN combat_options.co = {"Action", "Bonus Action", "Reaction", "Other"}

C10_Witness ==
    /\ Returned
    /\ DOMAIN combat_options.co = {"Action", "Bonus Action", "Reaction", "Other"}
    /\ combat_options.co["Bonus Action"] = <<>>
    /\ combat_options.co["Other"] = <<>>
    /\ Len(combat_options.co["Action"]) > 6

----------------------------------------------------------------------------
(* The session's claims                                                    *)

\* the latest run was a Load Character click whose fetch failed
FetchFailed == event = "load" /\ (http.neterr # "" \/ http.status \notin 200..299)

\* the message of the exception the failed fetch raised
FetchMessage == IF http.neterr # "" THEN http.neterr ELSE HttpErrorText(http.status)

\* C4: with an API key configured and a character loaded by live fetch or by
\* upload, clicking Generate Strategy leads to the run that sends the prompt
\* built from that character's name, HP and combat options, and stores and
\* displays the returned text verbatim when the model answers
C4_GenerateAfterLoad ==
    [][(gen_button /\ Truthy(character_data) /\ event' = "generate" /\ Truthy(api_key'))
        => /\ model_call'.prompt
                = BuildPrompt(sheet_name, hp.current_hp, hp.max_hp,
                              combat_options.co, situation)
           /\ model_call'.ok
                => /\ Get(session_state', "last_strat", Null) = JStr(model_call'.text)
                   /\ shown_strat' = JStr(model_call'.text)]_vars

\* C5: once a character is loaded it stays the loaded character, with its
\* dashboard rendered, in every later run until another load replaces it
C5_CharacterPersists ==
    [][(Truthy(character_data) /\ event' \notin {"load", "upload", "remove"})
        => /\ character_data' = character_data
           /\ (heading # "" /\ exception' = "") => heading' = heading]_vars

\* C6: a failed fetch (network failure or a non-2xx status) makes
\* fetch_character_json return an error value carrying the exception's
\* message; the run shows that message, the fetch leaves character_data
\* unset and contributes no dashboard, and the run ends without an exception
C6_FetchFailure ==
    FetchFailed =>
        /\ result = JObj([error |-> JStr(FetchMessage)])
        /\ fetcher_fetch_character_json(http) = JObj([error |-> JStr(FetchMessage)])
        /\ errors = <<"Failed to fetch: " \o FetchMessage>>
        /\ fetched_data = Null
        /\ uploaded_file = Null
            => character_data = Null /\ heading = "" /\ exception = ""

C6_Witness ==
    /\ FetchFailed
    /\ http.status = 404
    /\ uploaded_file = Null
    /\ errors = <<"Failed to fetch: 404 Client Error: Not Found for url: https://character-service.dndbeyond.com/character/v5/character/151075644">>
    /\ character_data = Null
    /\ heading = ""

C8_HpFraction ==
    max_hp_widget.shown =>
        /\ exception # "ZeroDivisionError"
        /\ hp.hp_percent.d > 0
        /\ 0 <= hp.hp_percent.n
        /\ hp.hp_percent.n <= hp.hp_percent.d

====
